---- MODULE Spec2Model ----
(***************************************************************************)
(* Model of bin/remove_reads_genome_transcriptome.py (FusionCatcher).      *)
(*                                                                         *)
(* The script reads two Bowtie MAP files.  map2dict() turns the first one  *)
(* into a sequence of dictionaries read-name -> mismatch count ("batches") *)
(* and, for every batch, the driver streams the current residue of the     *)
(* second file, writing each line to the output, to a new residue file, or *)
(* nowhere.  After the last batch the residue is appended to the output.   *)
(*                                                                         *)
(* A line of a MAP file is modelled by its read name (column 1) and its    *)
(* mismatch-descriptor field (column --mismatches_column), a sequence of   *)
(* characters.  A line of the second file also carries its line number in  *)
(* that file ("no"), so that two equal lines stay distinguishable.         *)
(***************************************************************************)
EXTENDS Integers, Sequences, FiniteSets, TLC

\* ------------------------------------------------------------------ bounds
\* most lines the two input files hold together
MaxLines == 4
\* largest value of map2dict's limit_counts_reads (the default 7*10^7, scaled)
MaxLimit == 1
\* longest descriptor field, in characters, of the specification SpecField
MaxFieldLen == 3

\* read names (column 1 of a MAP file)
Names == {"a", "b", "c"}
\* the characters of a descriptor field: the two separators and any other one
Chars == {":", ",", "A"}
\* the descriptor fields of the files of Spec: no mismatch, one mismatch
Fields == {<< >>, <<"A", ":", "A">>}
\* every descriptor field of at most MaxFieldLen characters
AllFields == UNION {[1..n -> Chars] : n \in 0..MaxFieldLen}

\* what r[mc] stands for on a line with fewer fields than the mismatch
\* column: reading it raises IndexError
NoField == <<"IndexError">>

\* Python's None, the first value of last_read / lastread
None == "None"
\* the value of a local that was never assigned
Unbound == -1
\* the path --input_map_2; temporary files are the paths 1, 2, ...
Map2Path == 0

VARIABLES
    options,        \* which of the three required options were given
    exit_code,      \* exit status of the process, Unbound while it runs
    map_1,          \* contents of --input_map_1: sequence of [name, field]
    map_2,          \* contents of --input_map_2: sequence of [no, name, field]
    limit,          \* limit_counts_reads of this run
    disk,           \* the files that exist: path -> sequence of lines
    ntemp,          \* number of temporary files created so far (mkstemp)
    pc,             \* position of the driver
    gen,            \* position of the generator map2dict
    fi_pos,         \* lines of map_1 read by map2dict
    last_read,      \* map2dict's last_read
    base,           \* map2dict's base: sequence of <<name, count>>
    baza,           \* the batch the driver holds: function name -> count
    batches,        \* every batch yielded so far, in order
    in1, ou1,       \* driver: source path and new-residue path
    first_flag,     \* driver: first_flag
    lastread,       \* driver: lastread
    lastappended,   \* driver: lastappended
    lastfinal,      \* driver: lastfinal
    m,              \* driver: m, the last mismatch count computed (line 218)
    fin_pos,        \* lines read from the open source file fin
    final,          \* contents of --output
    final_state,    \* the file object final: "none", "open" or "closed"
    final_pass,     \* for each line of final, the pass that wrote it
    passes,         \* number of filter passes started
    yielded_at,     \* for each batch yielded, fi_pos when it was yielded
    events          \* the file operations done so far: sequence of <<op, path>>

vars == <<options, exit_code, final_state, yielded_at, events, map_1, map_2, limit, disk, ntemp, pc, gen, fi_pos, last_read, base,
          baza, batches, in1, ou1, first_flag, lastread, lastappended,
          lastfinal, m, fin_pos, final, final_pass, passes>>

\* ------------------------------------------------------------ pure helpers

\* str.count(ch)
count(s, ch) == Cardinality({i \in 1..Len(s) : s[i] = ch})

mismatches_commas(field) == IF field = << >> THEN 0 ELSE count(field, ",")
\* 0 if not d[1] else d[1].count(':')
mismatches(field) == IF field = << >> THEN 0 ELSE count(field, ":")

\* lines 158-161: the three required options are given
valid_any(o) == o.map_1_filename \/ o.map_2_filename \/ o.output_filename
valid(o) == o.map_1_filename /\ o.map_2_filename /\ o.output_filename

\* h[col] raises IndexError: the line has too few fields
short(line) == line.field = NoField

\* giveRC(h, col): (h[0], h[col])
giveRC(d) == <<d.name, d.field>>

\* line 75: giveRC raises on some line of the chunk
raises(du) == \E i \in 1..Len(du) : short(du[i])

\* the loop "for d in du" of map2dict: st = [last |-> last_read, di |-> di]
RECURSIVE scan_loop(_, _)
scan_loop(du, st) ==
    IF du = << >> THEN st
    ELSE LET d == giveRC(Head(du)) IN
         scan_loop(Tail(du),
              IF st.last # d[1]
              THEN [last |-> d[1],
                    di |-> Append(st.di, <<d[1], mismatches(d[2])>>)]
              ELSE st)

scan_per_chunk(du, st) == scan_loop(du, [st EXCEPT !.last = None])
scan(du, st) == scan_loop(du, st)

\* dict(base): a later pair replaces an earlier pair with the same key
dict_first(b) ==
    [n \in {b[i][1] : i \in 1..Len(b)} |->
        LET first == CHOOSE i \in 1..Len(b) :
                        /\ b[i][1] = n
                        /\ \A j \in 1..Len(b) : b[j][1] = n => j >= i
        IN  b[first][2]]
dict(b) ==
    [n \in {b[i][1] : i \in 1..Len(b)} |->
        LET last == CHOOSE i \in 1..Len(b) :
                        /\ b[i][1] = n
                        /\ \A j \in 1..Len(b) : b[j][1] = n => j <= i
        IN  b[last][2]]

\* baza.has_key(rr)
has_key(d, rr) == rr \in DOMAIN d

\* ----------------------------------------------------------- file system

\* a file comes to exist, empty: tempfile.mkstemp, open(path, 'w')
create(d, p) == [q \in DOMAIN d \cup {p} |-> IF q = p THEN << >> ELSE d[q]]

\* os.remove(path)
remove(d, p) == [q \in DOMAIN d \ {p} |-> d[q]]

\* give_me_temp_filename(tmp_dir): a name no earlier file had
give_me_temp_filename(n) == n + 1

\* lines 241-244: the source of the pass is removed, except on the first pass
drop_source_always(d, flag, p) == remove(d, p)
drop_source(d, flag, p) == IF flag THEN d ELSE remove(d, p)

\* line 247: the placeholder allocated last is removed
drop_placeholder_forgotten(d, p) == d
drop_placeholder(d, p) == remove(d, p)

\* lines 260-261: the last residue is removed, if it is a temporary file
drop_last_residue(d, flag, p) == IF ~flag THEN remove(d, p) ELSE d

\* file.writelines(lines): the lines go after what the file holds
writelines_before(f, lines) == lines \o f
writelines(f, lines) == f \o lines

\* line 95, "if base:"
remaining_any(b) == TRUE
remaining(b) == b # << >>

\* Lines 216-232: a line whose read name differs from lastread, under batch d.
\* st = [lastread, lastappended, lastfinal, m, data, data_final, err]
decide_absent_dropped(d, st, line) ==
    LET rr == line.name IN
    IF has_key(d, rr)
    THEN IF short(line)
         THEN [st EXCEPT !.lastread = rr, !.err = TRUE]
         ELSE LET mm == mismatches(line.field) IN
              IF d[rr] >= mm
              THEN [st EXCEPT !.lastread = rr, !.m = mm,
                              !.data_final = Append(@, line),
                              !.lastappended = TRUE, !.lastfinal = TRUE]
              ELSE [st EXCEPT !.lastread = rr, !.m = mm,
                              !.lastappended = FALSE]
    ELSE [st EXCEPT !.lastread = rr,
                    !.lastappended = FALSE, !.lastfinal = FALSE]
decide_both(d, st, line) ==
    LET rr == line.name IN
    IF has_key(d, rr)
    THEN IF short(line)
         THEN [st EXCEPT !.lastread = rr, !.err = TRUE]
         ELSE LET mm == mismatches(line.field) IN
              IF d[rr] >= mm
              THEN [st EXCEPT !.lastread = rr, !.m = mm,
                              !.data_final = Append(@, line),
                              !.data = Append(@, line),
                              !.lastappended = TRUE, !.lastfinal = TRUE]
              ELSE [st EXCEPT !.lastread = rr, !.m = mm,
                              !.lastappended = FALSE]
    ELSE [st EXCEPT !.lastread = rr,
                    !.data = Append(@, line),
                    !.lastappended = TRUE, !.lastfinal = FALSE]
decide(d, st, line) ==
    LET rr == line.name IN
    IF has_key(d, rr)
    THEN IF short(line)
         THEN [st EXCEPT !.lastread = rr, !.err = TRUE]
         ELSE LET mm == mismatches(line.field) IN
              IF d[rr] >= mm
              THEN [st EXCEPT !.lastread = rr, !.m = mm,
                              !.data_final = Append(@, line),
                              !.lastappended = TRUE, !.lastfinal = TRUE]
              ELSE [st EXCEPT !.lastread = rr, !.m = mm,
                              !.lastappended = FALSE]
    ELSE [st EXCEPT !.lastread = rr,
                    !.data = Append(@, line),
                    !.lastappended = TRUE, !.lastfinal = FALSE]

\* One iteration of "for line in lines" (lines 202-232) under batch d
ProcLine_forget(d, st, line) ==
    IF st.lastread = line.name
    THEN IF st.lastfinal
         THEN [st EXCEPT !.data_final = Append(@, line)]
         ELSE [st EXCEPT !.data = Append(@, line)]
    ELSE decide(d, st, line)
ProcLine(d, st, line) ==
    IF st.lastread = line.name
    THEN IF ~st.lastappended THEN st
         ELSE IF st.lastfinal
              THEN [st EXCEPT !.data_final = Append(@, line)]
              ELSE [st EXCEPT !.data = Append(@, line)]
    ELSE decide(d, st, line)

\* "for line in lines" over one chunk; an IndexError ends it
RECURSIVE ProcLines(_, _, _)
ProcLines(d, st, lines) ==
    IF lines = << >> \/ st.err THEN st
    ELSE ProcLines(d, ProcLine(d, st, Head(lines)), Tail(lines))

\* a chunk started with data still holding what the pass has written
chunk_state_stale(lr, la, lf, mm) ==
    [lastread |-> lr, lastappended |-> la, lastfinal |-> lf, m |-> mm,
     data |-> disk[ou1], data_final |-> << >>, err |-> FALSE]

\* the carried state at the start of a chunk, with the two buffers empty
\* (lines 200-201)
chunk_state(lr, la, lf, mm) ==
    [lastread |-> lr, lastappended |-> la, lastfinal |-> lf, m |-> mm,
     data |-> << >>, data_final |-> << >>, err |-> FALSE]

\* ------------------------------------------------------------------- Init

\* the first files of n lines, and the second files of n lines, with read
\* names in N and descriptor fields in F
Files1(N, F, n) == [1..n -> [name : N, field : F]]
Files2(N, F, n) ==
    {[i \in 1..n |-> [no |-> i, name |-> f[i].name, field |-> f[i].field]] :
        f \in [1..n -> [name : N, field : F]]}

\* every way to give or leave out --input_map_1, --input_map_2, --output
Options ==
    [map_1_filename : BOOLEAN, map_2_filename : BOOLEAN,
     output_filename : BOOLEAN]

\* all three given
AllGiven ==
    [map_1_filename |-> TRUE, map_2_filename |-> TRUE, output_filename |-> TRUE]

\* what an output file left by an earlier run holds
OldOutput == <<[no |-> 0, name |-> "a", field |-> << >>]>>

\* the state when the script starts (before line 155), for given inputs
InitRest ==
    /\ exit_code = Unbound
    /\ disk = (Map2Path :> map_2)
    /\ ntemp = 0
    /\ pc = "start"
    /\ gen = "new"
    /\ fi_pos = 0
    /\ last_read = None
    /\ base = << >>
    /\ baza = << >>
    /\ batches = << >>
    /\ in1 = Unbound
    /\ ou1 = Unbound
    /\ first_flag = TRUE
    /\ lastread = None
    /\ lastappended = FALSE
    /\ lastfinal = FALSE
    /\ m = Unbound
    /\ fin_pos = 0
    /\ final_state = "none"
    /\ final_pass = [i \in 1..Len(final) |-> 0]
    /\ passes = 0
    /\ yielded_at = << >>
    /\ events = << >>

\* one-line input files over two read names, with any descriptor field
InitField ==
    /\ options = AllGiven
    /\ map_1 \in Files1({"a", "b"}, AllFields, 1)
    /\ map_2 \in Files2({"a", "b"}, AllFields, 1)
    /\ limit \in 0..MaxLimit
    /\ final = << >>
    /\ InitRest

\* input files of at most one line each, any subset of the required options,
\* and an output path where a file may exist already
InitArgs ==
    /\ options \in Options
    /\ \E n1 \in 0..1 : \E n2 \in 0..1 :
          /\ map_1 \in Files1(Names, Fields, n1)
          /\ map_2 \in Files2(Names, Fields, n2)
    /\ limit \in 0..MaxLimit
    /\ final \in {<< >>, OldOutput}
    /\ InitRest

\* input files over two read names in which lines may be too short
InitShort ==
    /\ options = AllGiven
    /\ \E n1 \in 0..(MaxLines - 1) : \E n2 \in 0..(MaxLines - 1 - n1) :
          /\ map_1 \in Files1({"a", "b"}, Fields \cup {NoField}, n1)
          /\ map_2 \in Files2({"a", "b"}, Fields \cup {NoField}, n2)
    /\ limit \in 0..MaxLimit
    /\ final = << >>
    /\ InitRest

Init ==
    /\ options = AllGiven
    /\ \E n1 \in 0..MaxLines : \E n2 \in 0..(MaxLines - n1) :
          /\ map_1 \in Files1(Names, Fields, n1)
          /\ map_2 \in Files2(Names, Fields, n2)
    /\ limit \in 0..MaxLimit
    /\ final = << >>
    /\ InitRest

\* ---------------------------------------------------------------- driver

\* Lines 157-190.  With a required option missing: usage and sys.exit(1).
\* Otherwise the temporary file, the output, the carried state and the
\* generator object, whose first next() the for statement then asks for;
\* map2dict opens the first file at that first next().
Start ==
    /\ pc = "start"
    /\ IF ~valid(options)
       THEN /\ pc' = "usage"
            /\ exit_code' = 1
            /\ UNCHANGED <<in1, ou1, ntemp, disk, final, final_state,
                           final_pass, first_flag, lastread, lastappended,
                           lastfinal, gen, fi_pos, last_read, base, events>>
       ELSE /\ in1' = Map2Path
            /\ ou1' = give_me_temp_filename(ntemp)
            /\ ntemp' = ntemp + 1
            /\ disk' = create(disk, give_me_temp_filename(ntemp))
            /\ final' = << >>
            /\ final_state' = "open"
            /\ final_pass' = << >>
            /\ first_flag' = TRUE
            /\ lastread' = None
            /\ lastappended' = FALSE
            /\ lastfinal' = FALSE
            /\ gen' = "loop"
            /\ fi_pos' = 0
            /\ last_read' = None
            /\ base' = << >>
            /\ events' = events \o <<<<"create", give_me_temp_filename(ntemp)>>,
                                     <<"next", Unbound>>>>
            /\ pc' = "gen"
            /\ UNCHANGED exit_code
    /\ UNCHANGED <<options, map_1, map_2, limit, baza, batches, m, fin_pos,
                   passes, yielded_at>>

\* map2dict, lines 68-94: one chunk of the first file, of k >= 1 lines; a
\* line that is too short raises IndexError, which nothing catches
BuilderChunk ==
    /\ pc = "gen" /\ gen = "loop"
    /\ fi_pos < Len(map_1)
    /\ \E k \in 1..(Len(map_1) - fi_pos) :
        LET du == SubSeq(map_1, fi_pos + 1, fi_pos + k)
            s == scan(du, [last |-> last_read, di |-> << >>])
            b == base \o s.di
        IN  /\ fi_pos' = fi_pos + k
            /\ IF raises(du)
               THEN /\ pc' = "error"
                    /\ exit_code' = 1
                    /\ UNCHANGED <<last_read, base, baza, batches, yielded_at>>
               ELSE /\ last_read' = s.last
                    /\ UNCHANGED exit_code
                    /\ IF Len(b) > limit
                       THEN /\ baza' = dict(b)
                            /\ batches' = Append(batches, dict(b))
                            /\ yielded_at' = Append(yielded_at, fi_pos + k)
                            /\ base' = << >>
                            /\ pc' = "open"
                       ELSE /\ base' = b
                            /\ pc' = "gen"
                            /\ UNCHANGED <<baza, batches, yielded_at>>
    /\ UNCHANGED <<options, map_1, map_2, limit, disk, ntemp, gen, in1, ou1,
                   first_flag, lastread, lastappended, lastfinal, m, fin_pos,
                   final, final_state, final_pass, passes, events>>

\* map2dict, lines 70-73 and 95-101: end of the first file
BuilderEOF ==
    /\ pc = "gen" /\ gen = "loop"
    /\ fi_pos = Len(map_1)
    /\ IF remaining(base)
       THEN /\ baza' = dict(base)
            /\ batches' = Append(batches, dict(base))
            /\ yielded_at' = Append(yielded_at, fi_pos)
            /\ gen' = "tail"
            /\ pc' = "open"
       ELSE /\ gen' = "closed"
            /\ pc' = "finish"
            /\ UNCHANGED <<baza, batches, yielded_at>>
    /\ UNCHANGED <<options, exit_code, map_1, map_2, limit, disk, ntemp, fi_pos,
                   last_read, base, in1, ou1, first_flag, lastread,
                   lastappended, lastfinal, m, fin_pos, final, final_state,
                   final_pass, passes, events>>

\* a builder that, resumed after its last yield, never returns
BuilderClose_again ==
    /\ pc = "gen" /\ gen = "tail"
    /\ UNCHANGED vars

\* map2dict, lines 100-101: resumed after its last yield, it returns
BuilderClose ==
    /\ pc = "gen" /\ gen = "tail"
    /\ base' = << >>
    /\ gen' = "closed"
    /\ pc' = "finish"
    /\ UNCHANGED <<options, exit_code, map_1, map_2, limit, disk, ntemp, fi_pos,
                   last_read, baza, batches, in1, ou1, first_flag, lastread,
                   lastappended, lastfinal, m, fin_pos, final, final_state,
                   final_pass, passes, yielded_at, events>>

\* lines 191-193: fin = open(in1,'r'), fout = open(ou1,'w')
OpenPass ==
    /\ pc = "open"
    /\ in1 \in DOMAIN disk
    /\ disk' = create(disk, ou1)
    /\ fin_pos' = 0
    /\ passes' = passes + 1
    /\ events' = events \o <<<<"open_r", in1>>, <<"open_w", ou1>>>>
    /\ pc' = "filter"
    /\ UNCHANGED <<options, exit_code, map_1, map_2, limit, ntemp, gen, fi_pos,
                   last_read, base, baza, batches, in1, ou1, first_flag,
                   lastread, lastappended, lastfinal, m, final, final_state,
                   final_pass, yielded_at>>

\* lines 196-238: one chunk of the source, of k >= 1 lines; an IndexError at
\* line 218 ends the run before the chunk's lines are written
FilterChunk ==
    /\ pc = "filter"
    /\ in1 \in DOMAIN disk
    /\ fin_pos < Len(disk[in1])
    /\ \E k \in 1..(Len(disk[in1]) - fin_pos) :
        LET lines == SubSeq(disk[in1], fin_pos + 1, fin_pos + k)
            st == ProcLines(baza,
                            chunk_state(lastread, lastappended, lastfinal, m),
                            lines)
        IN  /\ fin_pos' = fin_pos + k
            /\ lastread' = st.lastread
            /\ lastappended' = st.lastappended
            /\ lastfinal' = st.lastfinal
            /\ m' = st.m
            /\ IF st.err
               THEN /\ pc' = "error"
                    /\ exit_code' = 1
                    /\ UNCHANGED <<disk, final, final_pass>>
               ELSE /\ disk' = [disk EXCEPT ![ou1] = writelines(@, st.data)]
                    /\ final' = writelines(final, st.data_final)
                    /\ final_pass' =
                         final_pass \o [i \in 1..Len(st.data_final) |-> passes]
                    /\ UNCHANGED <<pc, exit_code>>
    /\ UNCHANGED <<options, map_1, map_2, limit, ntemp, gen, fi_pos, last_read,
                   base, baza, batches, in1, ou1, first_flag, final_state,
                   passes, yielded_at, events>>

\* lines 198-199 and 239-246: end of the source; the for statement then asks
\* map2dict for the next batch
FilterEOF_no_swap ==
    /\ pc = "filter"
    /\ in1 \in DOMAIN disk
    /\ fin_pos = Len(disk[in1])
    /\ disk' = create(drop_source(disk, first_flag, in1),
                      give_me_temp_filename(ntemp))
    /\ events' = events
                 \o <<<<"eof", in1>>, <<"close_r", in1>>, <<"close_w", ou1>>>>
                 \o (IF first_flag THEN << >> ELSE <<<<"remove", in1>>>>)
                 \o <<<<"create", give_me_temp_filename(ntemp)>>,
                      <<"next", Unbound>>>>
    /\ first_flag' = FALSE
    /\ in1' = in1
    /\ ou1' = give_me_temp_filename(ntemp)
    /\ ntemp' = ntemp + 1
    /\ pc' = "gen"
    /\ UNCHANGED <<options, exit_code, map_1, map_2, limit, gen, fi_pos,
                   last_read, base, baza, batches, lastread, lastappended,
                   lastfinal, m, fin_pos, final, final_state, final_pass,
                   passes, yielded_at>>
FilterEOF ==
    /\ pc = "filter"
    /\ in1 \in DOMAIN disk
    /\ fin_pos = Len(disk[in1])
    /\ disk' = create(drop_source(disk, first_flag, in1),
                      give_me_temp_filename(ntemp))
    /\ events' = events
                 \o <<<<"eof", in1>>, <<"close_r", in1>>, <<"close_w", ou1>>>>
                 \o (IF first_flag THEN << >> ELSE <<<<"remove", in1>>>>)
                 \o <<<<"create", give_me_temp_filename(ntemp)>>,
                      <<"next", Unbound>>>>
    /\ first_flag' = FALSE
    /\ in1' = ou1
    /\ ou1' = give_me_temp_filename(ntemp)
    /\ ntemp' = ntemp + 1
    /\ pc' = "gen"
    /\ UNCHANGED <<options, exit_code, map_1, map_2, limit, gen, fi_pos,
                   last_read, base, baza, batches, lastread, lastappended,
                   lastfinal, m, fin_pos, final, final_state, final_pass,
                   passes, yielded_at>>

\* lines 247-248: after the last batch
Finish ==
    /\ pc = "finish"
    /\ disk' = drop_placeholder(disk, ou1)
    /\ in1 \in DOMAIN disk'
    /\ fin_pos' = 0
    /\ events' = events \o <<<<"remove", ou1>>, <<"open_r", in1>>>>
    /\ pc' = "append"
    /\ UNCHANGED <<options, exit_code, map_1, map_2, limit, ntemp, gen, fi_pos,
                   last_read, base, baza, batches, in1, ou1, first_flag,
                   lastread, lastappended, lastfinal, m, final, final_state,
                   final_pass, passes, yielded_at>>

\* lines 249-257: one chunk of the last residue goes to the output
AppendChunk ==
    /\ pc = "append"
    /\ fin_pos < Len(disk[in1])
    /\ \E k \in 1..(Len(disk[in1]) - fin_pos) :
        LET lines == SubSeq(disk[in1], fin_pos + 1, fin_pos + k)
        IN  /\ fin_pos' = fin_pos + k
            /\ final' = writelines(final, lines)
            /\ final_pass' = final_pass \o [i \in 1..k |-> passes + 1]
    /\ UNCHANGED <<options, exit_code, map_1, map_2, limit, disk, ntemp, pc, gen,
                   fi_pos, last_read, base, baza, batches, in1, ou1, first_flag,
                   lastread, lastappended, lastfinal, m, final_state, passes,
                   yielded_at, events>>

\* lines 253-254 and 258-264: end of the last residue, and of the run
AppendEOF ==
    /\ pc = "append"
    /\ fin_pos = Len(disk[in1])
    /\ final_state' = "closed"
    /\ disk' = drop_last_residue(disk, first_flag, in1)
    /\ events' = events
                 \o <<<<"eof", in1>>, <<"close_r", in1>>>>
                 \o (IF first_flag THEN << >> ELSE <<<<"remove", in1>>>>)
    /\ exit_code' = 0
    /\ pc' = "done"
    /\ UNCHANGED <<options, map_1, map_2, limit, ntemp, gen, fi_pos, last_read,
                   base, baza, batches, in1, ou1, first_flag, lastread,
                   lastappended, lastfinal, m, fin_pos, final, final_pass,
                   passes, yielded_at>>

Next ==
    \/ Start
    \/ BuilderChunk
    \/ BuilderEOF
    \/ BuilderClose
    \/ OpenPass
    \/ FilterChunk
    \/ FilterEOF
    \/ Finish
    \/ AppendChunk
    \/ AppendEOF

Spec == Init /\ [][Next]_vars

\* the same program on one-line files with arbitrary descriptor fields
SpecField == InitField /\ [][Next]_vars

\* the same program started with any subset of the required options
SpecArgs == InitArgs /\ [][Next]_vars

\* the same program on files in which lines may be too short
SpecShort == InitShort /\ [][Next]_vars

\* The script is one sequential process: whenever it has a next step it takes
\* it (every loop reads a finite file forward).
SpecFair == Init /\ [][Next]_vars /\ WF_vars(Next)

\* ------------------------------------------------- vocabulary of the claims

\* same-named Records of file f are contiguous
Contiguous(f) ==
    \A i, j \in 1..Len(f) :
        (i < j /\ f[i].name = f[j].name) =>
            \A k \in i..j : f[k].name = f[i].name

\* all Records of one read in file f report the same mismatch count
Uniform(f) ==
    \A i, j \in 1..Len(f) :
        f[i].name = f[j].name => mismatches(f[i].field) = mismatches(f[j].field)

\* the read names of the first file
Names1 == {map_1[i].name : i \in 1..Len(map_1)}

\* line i of the second file is in the output
InOutput(i) == \E j \in 1..Len(final) : final[j].no = i

\* the first Record of the Read Group of line i of the second file
GroupFirst(i) ==
    CHOOSE j \in 1..i :
        /\ \A k \in j..i : map_2[k].name = map_2[i].name
        /\ j > 1 => map_2[j - 1].name # map_2[i].name

\* R: the mismatch count the first file records for read n
RefCount(n) ==
    mismatches(map_1[CHOOSE i \in 1..Len(map_1) :
                        /\ map_1[i].name = n
                        /\ \A j \in 1..(i - 1) : map_1[j].name # n].field)

\* M: the mismatch count of the first Record of the group of line i
OwnCount(i) == mismatches(map_2[GroupFirst(i)].field)

\* the lines of sequence f that belong to read n
OfRead(f, n) == SelectSeq(f, LAMBDA l : l.name = n)

\* the output of the run in which the whole first file is one batch
OneBatchOutput ==
    LET s == scan(map_1, [last |-> None, di |-> << >>]) IN
    IF s.di = << >> THEN map_2
    ELSE LET st == ProcLines(dict(s.di),
                             chunk_state(None, FALSE, FALSE, Unbound), map_2)
         IN  st.data_final \o st.data

\* the number of comma-separated descriptors of a field
Descriptors(field) == IF field = << >> THEN 0 ELSE count(field, ",") + 1

\* a field in Bowtie's format: empty, or descriptors offset:ref>read, each
\* with exactly one ':', separated by ','
WellFormed(field) ==
    \/ field = << >>
    \/ LET seps == {0, Len(field) + 1} \cup
                  {i \in 1..Len(field) : field[i] = ","}
       IN  \A i \in seps \ {Len(field) + 1} :
             LET j == CHOOSE k \in seps :
                          k > i /\ \A l \in seps : l > i => k <= l
             IN  Cardinality({k \in (i + 1)..(j - 1) : field[k] = ":"}) = 1

\* ------------------------------------------------------------------ claims

\* C1: when the run has ended, a Read Group of the second file whose read
\* name occurs in the first file is in the output if and only if R >= M,
\* whatever the batching.  Stated for input files that keep the data model's
\* preconditions (contiguous groups, one mismatch count per read).
C1_KeepRule ==
    (pc = "done" /\ Contiguous(map_1) /\ Contiguous(map_2) /\ Uniform(map_1))
    => \A i \in 1..Len(map_2) :
          map_2[i].name \in Names1 =>
              (InOutput(i) <=> RefCount(map_2[i].name) >= OwnCount(i))

\* C2: the output does not depend on the batching: whatever the batches, the
\* run outputs what the run with one batch outputs.  The formula states the
\* part of the claim that ignores the order: the same lines are output.
C2_BatchInvariant ==
    (pc = "done" /\ Contiguous(map_1) /\ Contiguous(map_2) /\ Uniform(map_1))
    => {final[j].no : j \in 1..Len(final)} =
       {OneBatchOutput[j].no : j \in 1..Len(OneBatchOutput)}

\* C3: when same-named Records of the second file are contiguous, a Read
\* Group has all of its Records or none of them in the output.
C3_AtomicGroups ==
    (pc = "done" /\ Contiguous(map_2))
    => \A i, j \in 1..Len(map_2) :
          map_2[i].name = map_2[j].name => (InOutput(i) <=> InOutput(j))

\* a run of two passes that ended with a two-Record group, of a read the
\* first file names, dropped whole
C3_Witness ==
    /\ pc = "done" /\ Contiguous(map_2) /\ passes = 2
    /\ \E i \in 1..(Len(map_2) - 1) :
          /\ map_2[i].name = map_2[i + 1].name
          /\ map_2[i].name \in Names1
          /\ ~InOutput(i) /\ ~InOutput(i + 1)

\* C4: the Records of a read that no Record of the first file names are all
\* in the output, unchanged and in their order, whatever the number of
\* batches.
C4_PassThrough ==
    pc = "done"
    => \A n \in Names \ Names1 : OfRead(final, n) = OfRead(map_2, n)

\* a run of two passes that ended, with two Records of a read the first file
\* does not name
C4_Witness ==
    /\ pc = "done" /\ passes = 2
    /\ \E n \in Names \ Names1 : Len(OfRead(map_2, n)) = 2

\* C5 as stated: any two Records of the output are in the order they have in
\* the second file.
C5_OrderPreserved ==
    pc = "done"
    => \A j, k \in 1..Len(final) : j < k => final[j].no < final[k].no

\* C5 as amended: two Records of the output written by the same step (the
\* same filter pass, or the final append of the residue) are in the order
\* they have in the second file.
C5_OrderWithinPass ==
    \A j, k \in 1..Len(final) :
        (j < k /\ final_pass[j] = final_pass[k]) => final[j].no < final[k].no

\* a run that ended with two Records finalized by the same pass and a Record
\* appended from the residue
C5_Witness ==
    /\ pc = "done"
    /\ \E j \in 1..(Len(final) - 1) :
          final_pass[j] = final_pass[j + 1] /\ final_pass[j] = passes
    /\ \E j \in 1..Len(final) : final_pass[j] = passes + 1

\* C6: with an empty first file the builder yields no batch, no filter pass
\* runs, and the output is a copy of the second file.
C6_EmptyFirstFile ==
    map_1 = << >>
    => /\ batches = << >>
       /\ passes = 0
       /\ pc = "done" => final = map_2

\* a run on an empty first file and a second file of two lines, ended
C6_Witness == pc = "done" /\ map_1 = << >> /\ Len(map_2) >= 2

\* C7: the second input file is never removed (nor changed).
C7_InputKept == Map2Path \in DOMAIN disk /\ disk[Map2Path] = map_2

\* a run that removed the source of its second pass and its last residue
C7_Witness == pc = "done" /\ passes >= 2 /\ ~first_flag

\* C8: when the run has ended, no temporary file is left.
C8_NoTempLeft == pc = "done" => DOMAIN disk = {Map2Path}

\* runs that ended after creating one, two and three temporary files
C8_Witness == pc = "done" /\ ntemp = 3 /\ passes = 2

\* C9: when same-named Records of the first file are contiguous, no read
\* name is a key of two batches, and once the builder has returned every
\* read name of the first file is a key of exactly one batch.
C9_DisjointBatches ==
    Contiguous(map_1)
    => /\ \A i, j \in 1..Len(batches) :
             i # j => DOMAIN batches[i] \cap DOMAIN batches[j] = {}
       /\ gen = "closed" =>
             \A n \in Names1 :
                Cardinality({i \in 1..Len(batches) : n \in DOMAIN batches[i]}) = 1

\* the builder has just yielded its second batch at a chunk boundary that
\* falls inside a group of same-named Records
C9_Witness ==
    /\ Contiguous(map_1) /\ pc = "open" /\ Len(batches) = 2
    /\ fi_pos < Len(map_1)
    /\ map_1[fi_pos].name = map_1[fi_pos + 1].name

\* C10 as stated: every count the builder stores, and the count the filter
\* pass computes, is the number of comma-separated descriptors of the field
\* it was derived from (0 for the empty field).
C10_DescriptorCount ==
    /\ \A k \in 1..Len(batches) : \A n \in DOMAIN batches[k] :
          \E i \in 1..Len(map_1) :
             map_1[i].name = n /\ batches[k][n] = Descriptors(map_1[i].field)
    /\ m # Unbound =>
          \E i \in 1..Len(map_2) :
             map_2[i].name = lastread /\ m = Descriptors(map_2[i].field)

\* C10 as amended: the same, for descriptor fields in Bowtie's format.
C10_DescriptorCountWellFormed ==
    /\ \A k \in 1..Len(batches) : \A n \in DOMAIN batches[k] :
          (\A i \in 1..Len(map_1) :
              map_1[i].name = n => WellFormed(map_1[i].field))
          => \E i \in 1..Len(map_1) :
                map_1[i].name = n /\ batches[k][n] = Descriptors(map_1[i].field)
    /\ (/\ m # Unbound
        /\ \A i \in 1..Len(map_2) :
              map_2[i].name = lastread => WellFormed(map_2[i].field))
       => \E i \in 1..Len(map_2) :
             map_2[i].name = lastread /\ m = Descriptors(map_2[i].field)

\* the builder stored 2 for a field of two descriptors and the filter pass
\* computed 2 for another one
C10_Witness ==
    /\ pc = "done" /\ m = 2
    /\ \E n \in DOMAIN baza : baza[n] = 2
    /\ \A i \in 1..Len(map_1) : WellFormed(map_1[i].field)
    /\ \A i \in 1..Len(map_2) : WellFormed(map_2[i].field)

\* one of --input_map_1, --input_map_2, --output was not given
MissingOption ==
    \E o \in {"map_1_filename", "map_2_filename", "output_filename"} :
        ~options[o]

\* C11: with a required option missing the run ends with exit status 1 at
\* the usage text, and before that nothing is touched: no temporary file is
\* created, no file is opened, read, written or removed, and a file at the
\* output path keeps its contents.
C11_MissingOptionExits ==
    /\ [](MissingOption =>
            /\ pc \in {"start", "usage"}
            /\ pc = "usage" => exit_code = 1
            /\ pc = "start" => exit_code = Unbound
            /\ ntemp = 0
            /\ events = << >>
            /\ final_state = "none"
            /\ fi_pos = 0 /\ fin_pos = 0 /\ gen = "new" /\ passes = 0)
    /\ [][MissingOption => UNCHANGED <<disk, final>>]_vars

\* the run ended at the usage text because only --output was missing, and the
\* file at the output path still holds what it held
C11_Witness ==
    /\ pc = "usage" /\ exit_code = 1
    /\ options.map_1_filename /\ options.map_2_filename
    /\ ~options.output_filename
    /\ final = OldOutput
    /\ Len(map_1) = 1 /\ Len(map_2) = 1

\* C12: when a line of the first or of the second file has fewer fields
\* than the mismatch column, the run does not complete normally, and no such
\* line is copied to the output.
C12_ShortLineAborts ==
    (\/ \E i \in 1..Len(map_1) : short(map_1[i])
     \/ \E i \in 1..Len(map_2) : short(map_2[i]))
    => /\ pc # "done"
       /\ \A j \in 1..Len(final) : ~short(final[j])

\* the read names that are keys of one of the first k batches
KeysUpTo(k) == UNION {DOMAIN batches[i] : i \in 1..k}

\* C13: between two passes (and after the last one) the residue holds exactly
\* the Read Groups of the second file whose read name is a key of none of
\* the batches filtered so far.  Stated for input files that keep the data
\* model's preconditions.
C13_ResidueIsUnmatched ==
    (/\ Contiguous(map_1) /\ Contiguous(map_2) /\ Uniform(map_1)
     /\ passes >= 1 /\ pc \in {"gen", "open", "finish"})
    => disk[in1] = SelectSeq(map_2, LAMBDA l : l.name \notin KeysUpTo(passes))

\* the lines of the first file accumulated for batch k: those read since the
\* batch before it was yielded
WindowOf(k) == (IF k = 1 THEN 1 ELSE yielded_at[k - 1] + 1)..yielded_at[k]

\* line i of the first file starts a run of same-named lines
RunStart(i) == i = 1 \/ map_1[i - 1].name # map_1[i].name

\* the lines of window k that name read n
Naming(k, n) == {i \in WindowOf(k) : map_1[i].name = n}

\* the least and the greatest member of a non-empty set of line numbers
Least(S) == CHOOSE i \in S : \A j \in S : i <= j
Greatest(S) == CHOOSE i \in S : \A j \in S : i >= j

\* C14 as stated: every batch is non-empty, the batches' keys are together
\* the read names of the first file, and a batch maps each of its read names
\* to the mismatch count of the first Record with that name in its window.
C14_FirstRecordWins ==
    /\ \A k \in 1..Len(batches) :
          /\ DOMAIN batches[k] # {}
          /\ \A n \in DOMAIN batches[k] :
                /\ Naming(k, n) # {}
                /\ batches[k][n] = mismatches(map_1[Least(Naming(k, n))].field)
    /\ gen = "closed" => KeysUpTo(Len(batches)) = Names1

\* C14 as amended: the same, but a batch maps each of its read names to the
\* mismatch count of the Record that starts the last run of that name in its
\* window, and its keys are the names of the runs that start in its window.
C14_LastRunWins ==
    /\ \A k \in 1..Len(batches) :
          /\ DOMAIN batches[k] # {}
          /\ DOMAIN batches[k] =
                {map_1[i].name : i \in {j \in WindowOf(k) : RunStart(j)}}
          /\ \A n \in DOMAIN batches[k] :
                batches[k][n] =
                   mismatches(map_1[Greatest({i \in Naming(k, n) :
                                                 RunStart(i)})].field)
    /\ gen = "closed" => KeysUpTo(Len(batches)) = Names1

\* the builder has returned after a batch in whose window a read name recurs
\* non-consecutively with another mismatch count
C14_Witness ==
    /\ gen = "closed"
    /\ \E k \in 1..Len(batches) : \E i, j \in WindowOf(k) :
          /\ i < j /\ RunStart(i) /\ RunStart(j)
          /\ map_1[i].name = map_1[j].name
          /\ mismatches(map_1[i].field) # mismatches(map_1[j].field)

\* the places in the log of file operations where op was done on path p
At(op, p) == {i \in 1..Len(events) : events[i] = <<op, p>>}

\* C15: a temporary file that is written is opened for writing once, is
\* opened for reading only after that writer closed it and at most once (once
\* exactly when the run has ended), is removed only after its reader reached
\* end of file and closed it, and is never used after it was removed; a file
\* being read exists; and map2dict is asked for the next batch only when the
\* pass before has read its source to the end and closed both files.
C15_ResidueLifecycle ==
    /\ \A p \in 1..ntemp :
          /\ Cardinality(At("open_w", p)) <= 1
          /\ Cardinality(At("open_r", p)) <= 1
          /\ \A r \in At("open_r", p) :
                \E w \in At("open_w", p) : \E c \in At("close_w", p) :
                   w < c /\ c < r
          /\ \A d \in At("remove", p) :
                /\ \A x \in (d + 1)..Len(events) : events[x][2] # p
                /\ At("open_w", p) # {} =>
                      \E r \in At("open_r", p) : \E e \in At("eof", p) :
                         \E c \in At("close_r", p) :
                            r < e /\ e < c /\ c < d
          /\ (pc = "done" /\ At("open_w", p) # {}) =>
                (At("open_r", p) # {} /\ At("remove", p) # {})
    /\ \A i \in 1..Len(events) :
          events[i][1] = "next" =>
             \A j \in 1..(i - 1) :
                /\ events[j][1] = "open_r" =>
                      \E e \in (j + 1)..(i - 1) : \E c \in (e + 1)..(i - 1) :
                         /\ events[e] = <<"eof", events[j][2]>>
                         /\ events[c] = <<"close_r", events[j][2]>>
                /\ events[j][1] = "open_w" =>
                      \E c \in (j + 1)..(i - 1) :
                         events[c] = <<"close_w", events[j][2]>>
    /\ pc \in {"filter", "append"} => in1 \in DOMAIN disk
    /\ pc = "filter" => ou1 \in DOMAIN disk

\* a run of two passes has ended: the residue of pass 1 was read by pass 2
\* and removed, the residue of pass 2 was read by the final append and removed
C15_Witness ==
    /\ pc = "done" /\ passes = 2
    /\ \E r \in At("open_r", 1) : \E d \in At("remove", 1) : r < d
    /\ \E r \in At("open_r", 2) : \E d \in At("remove", 2) : r < d
    /\ At("open_w", 3) = {} /\ At("remove", 3) # {}

\* r holds lines of f only, each once, in the order they have in f
SubseqOf(r, f) ==
    /\ \A j \in 1..Len(r) : \E i \in 1..Len(f) : f[i] = r[j]
    /\ \A j, k \in 1..Len(r) :
          j < k => \A x, y \in 1..Len(f) :
                      (f[x] = r[j] /\ f[y] = r[k]) => x < y

\* C16: every file on disk (the second file, the current residue, the
\* residue being written) is an order-preserving subsequence of the second
\* file, and the residue a pass writes is an order-preserving subsequence of
\* what the pass has read of its source.
C16_ResidueSubsequence ==
    /\ \A p \in DOMAIN disk : SubseqOf(disk[p], map_2)
    /\ pc = "filter" =>
          SubseqOf(disk[ou1], SubSeq(disk[in1], 1, fin_pos))

\* the second pass has read its source, a residue shorter than the second
\* file, to the end and has written a shorter residue
C16_Witness ==
    /\ pc = "filter" /\ passes = 2
    /\ fin_pos = Len(disk[in1])
    /\ Len(disk[ou1]) < Len(disk[in1])
    /\ Len(disk[in1]) < Len(map_2)

\* the lines of the second file that are still to be decided: the residue
\* not read yet, and the residue being written
Pending ==
    CASE pc = "start" -> map_2
      [] pc \in {"gen", "open", "finish"} -> disk[in1]
      [] pc = "filter" ->
            disk[ou1] \o SubSeq(disk[in1], fin_pos + 1, Len(disk[in1]))
      [] pc = "append" -> SubSeq(disk[in1], fin_pos + 1, Len(disk[in1]))
      [] OTHER -> << >>

\* C17: at every point of the run a line of the second file is at most once
\* in the output and the pending residue together, and every line there is a
\* line of the second file, unchanged.
C17_NoDuplicateNoInvention ==
    LET all == final \o Pending IN
    /\ \A j, k \in 1..Len(all) : j # k => all[j].no # all[k].no
    /\ \A j \in 1..Len(all) :
          all[j].no \in 1..Len(map_2) /\ all[j] = map_2[all[j].no]

\* a run that ended with a line finalized by a pass, a line appended from
\* the residue and a line dropped
C17_Witness ==
    /\ pc = "done"
    /\ \E j \in 1..Len(final) : final_pass[j] <= passes
    /\ \E j \in 1..Len(final) : final_pass[j] = passes + 1
    /\ \E i \in 1..Len(map_2) : ~InOutput(i)

C19_Terminates ==
    <>(/\ pc = "done" /\ exit_code = 0
       /\ gen = "closed" /\ fi_pos = Len(map_1)
       /\ passes = Len(batches)
       /\ Cardinality({i \in 1..Len(events) : events[i][1] = "eof"}) = passes + 1
       /\ final_state = "closed")

\* a run of two batches has ended
C19_Witness ==
    /\ pc = "done" /\ exit_code = 0 /\ final_state = "closed"
    /\ Len(batches) = 2 /\ passes = 2

====
